---------------------------- MODULE Spec2Model ----------------------------
(***************************************************************************)
(* A model of the brainfuck interpreter of src/src/main.rs: the pipeline   *)
(* tokenize -> optimize_opcodes -> parse -> execute run by main().         *)
(*                                                                         *)
(* Conventions.  Vec indices are 0-based in the source; the model keeps    *)
(* the source's 0-based cursors (i, j, loop_start) and reads a sequence    *)
(* through At.  An OpCode is a record [op, arg]; an Instruction is a       *)
(* record [op, arg, body].  ScanCells(true) carries arg 1 and              *)
(* ScanCells(false) carries arg 0.  The tape [0u8; 30000] is kept as the   *)
(* function from the indices of its nonzero cells to their values; every   *)
(* other index in 0..TapeLen-1 holds 0.  A panic is a move to pc = "fault" *)
(* with the panicking function and message recorded in `fault`.            *)
(***************************************************************************)
EXTENDS Integers, Sequences, FiniteSets, TLC

VARIABLES
    src,              \* the source text handed to tokenize, a sequence of characters
    overflow_checks,  \* TRUE: arithmetic overflow panics (debug profile); FALSE: it wraps (release profile)
    pc,               \* position of main(): "tokenize", "optimize", "parse", "execute", "halted", "fault"
    opcodes,          \* Vec<OpCode> of main(), rewritten in place by optimize_opcodes
    i,                \* the cursor of optimize_opcodes
    program,          \* Vec<Instruction> returned by parse
    tape,             \* the nonzero cells of the tape
    data_pointer,     \* the data pointer
    stack,            \* the active calls of execute: one frame [instrs, ix] per nested call
    stdin,            \* the bytes on stdin when the run starts
    input,            \* the bytes of stdin not yet read
    output,           \* what has been printed on stdout
    fault,            \* the panic that ended the run, or NoFault
    steps             \* number of execute steps taken so far

vars == <<src, overflow_checks, pc, opcodes, i, program, tape, data_pointer,
          stack, stdin, input, output, fault, steps>>

-----------------------------------------------------------------------------
(* Bounds of the model *)

MaxLen == 3

MaxRun == 257

MaxSteps == 40

LoopFuel == 800

(* Program constants *)

TapeLen == 30000

U8Modulus == 256

UsizeBits == 64

-----------------------------------------------------------------------------
(* OpCode and Instruction values *)

Op(name) == [op |-> name, arg |-> 0]

OpArg(name, n) == [op |-> name, arg |-> n]

Instr(name, n) == [op |-> name, arg |-> n, body |-> <<>>]

Loop(instructions) == [op |-> "Loop", arg |-> 0, body |-> instructions]

BoolArg(b) == IF b THEN 1 ELSE 0

NoFault == [in |-> "none", kind |-> "none", pos |-> 0]

Panic(function, message, position) == [in |-> function, kind |-> message, pos |-> position]

At(s, k) == s[k + 1]

\* Vec::drain(a..b): the sequence without its elements a .. b-1
Drain(s, a, b) == [k \in 1..(Len(s) - (b - a)) |-> IF k <= a THEN s[k] ELSE s[k + (b - a)]]

\* Vec::insert(a, x): x becomes element a, the elements from a on shift right
Insert(s, a, x) == [k \in 1..(Len(s) + 1) |-> IF k <= a THEN s[k] ELSE IF k = a + 1 THEN x ELSE s[k - 1]]

-----------------------------------------------------------------------------
(* tokenize *)

Symbols == {">", "<", "+", "-", ".", ",", "[", "]", "|"}

\* the tokenizer of the eight standard symbols, which drops `|`
TokenOfStandard(symbol) ==
    CASE symbol = ">" -> Op("IncrementPointer")
      [] symbol = "<" -> Op("DecrementPointer")
      [] symbol = "+" -> Op("Increment")
      [] symbol = "-" -> Op("Decrement")
      [] symbol = "." -> Op("Write")
      [] symbol = "," -> Op("Read")
      [] symbol = "[" -> Op("LoopBegin")
      [] symbol = "]" -> Op("LoopEnd")
      [] OTHER -> Op("None")

TokenOf(symbol) ==
    CASE symbol = ">" -> Op("IncrementPointer")
      [] symbol = "<" -> Op("DecrementPointer")
      [] symbol = "+" -> Op("Increment")
      [] symbol = "-" -> Op("Decrement")
      [] symbol = "." -> Op("Write")
      [] symbol = "," -> Op("Read")
      [] symbol = "[" -> Op("LoopBegin")
      [] symbol = "]" -> Op("LoopEnd")
      [] symbol = "|" -> Op("TapeState")
      [] OTHER -> Op("None")

IsToken(symbol) == TokenOf(symbol) /= Op("None")

tokenize(source) ==
    LET kept == SelectSeq(source, IsToken)
    IN  [k \in 1..Len(kept) |-> TokenOf(kept[k])]

-----------------------------------------------------------------------------
(* optimize_opcodes: one iteration of its cursor loop *)

IsResetIdiom(ops, c) ==
    /\ At(ops, c) = Op("LoopBegin")
    /\ c + 2 < Len(ops)
    /\ (At(ops, c + 1) = Op("Decrement") \/ At(ops, c + 1) = Op("Increment"))
    /\ At(ops, c + 2) = Op("LoopEnd")

IsScanIdiom(ops, c) ==
    /\ At(ops, c) = Op("LoopBegin")
    /\ c + 2 < Len(ops)
    /\ (At(ops, c + 1) = Op("DecrementPointer") \/ At(ops, c + 1) = Op("IncrementPointer"))
    /\ At(ops, c + 2) = Op("LoopEnd")

\* the result of one iteration: the rewritten sequence, or the panic
Rewritten(ops) == [ops |-> ops, fault |-> NoFault]

Aborted(ops, message, position) == [ops |-> ops, fault |-> Panic("optimize_opcodes", message, position)]

ResetRewrite(ops, c) == Rewritten(Insert(Drain(ops, c, c + 3), c, Op("ResetCell")))

\* the argument opcodes[i + 1] of the insert is read after the drain
ScanRewrite(ops, c) ==
    LET drained == Drain(ops, c, c + 3)
    IN  IF c + 1 >= Len(drained)
        THEN Aborted(drained, "index out of bounds", c + 1)
        ELSE Rewritten(Insert(drained, c,
                 OpArg("ScanCells", BoolArg(At(drained, c + 1) = Op("IncrementPointer")))))

\* one turn of the while loop counting a run of equal opcodes, at j = k; count is a u8
CountStep(ops, c, k, r, checks) ==
    IF r.done THEN r
    ELSE IF At(ops, k) = At(ops, c)
    THEN IF r.count + 1 >= U8Modulus /\ checks
         THEN [r EXCEPT !.overflow = TRUE, !.done = TRUE]
         ELSE [r EXCEPT !.j = k + 1, !.count = (r.count + 1) % U8Modulus]
    ELSE [r EXCEPT !.done = TRUE]

\* the turns of that loop for j = lo .. hi-1, in order (evaluated by halving the range)
RECURSIVE CountTurns(_, _, _, _, _, _)
CountTurns(ops, c, lo, hi, r, checks) ==
    IF r.done \/ lo >= hi THEN r
    ELSE IF hi - lo = 1 THEN CountStep(ops, c, lo, r, checks)
    ELSE LET mid == (lo + hi) \div 2
         IN  CountTurns(ops, c, mid, hi, CountTurns(ops, c, lo, mid, r, checks), checks)

\* let mut count = 1; let mut j = i + 1; while j < opcodes.len() && opcodes[j] == opcodes[i]
CountRun(ops, c, checks) ==
    CountTurns(ops, c, c + 1, Len(ops),
               [j |-> c + 1, count |-> 1, overflow |-> FALSE, done |-> FALSE], checks)

RunRewrite(ops, c, checks) ==
    LET run == CountRun(ops, c, checks)
        replacement == IF At(ops, c) = Op("Increment")
                       THEN OpArg("Add", run.count)
                       ELSE OpArg("Sub", run.count)
    IN  IF run.overflow
        THEN Aborted(ops, "attempt to add with overflow", run.j)
        ELSE Rewritten(Insert(Drain(ops, c, run.j), c, replacement))

\* the while loop accumulating the net offset of a run of pointer steps
RECURSIVE OffsetRun(_, _, _)
OffsetRun(ops, j, offset) ==
    IF j < Len(ops) /\ At(ops, j) = Op("IncrementPointer")
    THEN OffsetRun(ops, j + 1, offset + 1)
    ELSE IF j < Len(ops) /\ At(ops, j) = Op("DecrementPointer")
    THEN OffsetRun(ops, j + 1, offset - 1)
    ELSE [j |-> j, offset |-> offset]

\* a rewrite that inserts the Move and leaves the run in place
MoveRewriteKeepingRun(ops, c) ==
    LET run == OffsetRun(ops, c, 0)
    IN  IF run.offset /= 0
        THEN Rewritten(Insert(ops, c, OpArg("Move", run.offset)))
        ELSE Rewritten(ops)

MoveRewrite(ops, c) ==
    LET run == OffsetRun(ops, c, 0)
    IN  IF run.offset /= 0
        THEN Rewritten(Insert(Drain(ops, c, run.j), c, OpArg("Move", run.offset)))
        ELSE Rewritten(ops)

\* the match of one iteration, its arms tried in the order of the source
OptimizeIteration(ops, c, checks) ==
    IF IsResetIdiom(ops, c) THEN ResetRewrite(ops, c)
    ELSE IF IsScanIdiom(ops, c) THEN ScanRewrite(ops, c)
    ELSE IF At(ops, c).op \in {"Increment", "Decrement"} THEN RunRewrite(ops, c, checks)
    ELSE IF At(ops, c).op \in {"IncrementPointer", "DecrementPointer"} THEN MoveRewrite(ops, c)
    ELSE Rewritten(ops)

\* the whole of optimize_opcodes, from cursor c on
RECURSIVE optimize_from(_, _, _)
optimize_from(ops, c, checks) ==
    IF c < Len(ops)
    THEN LET r == OptimizeIteration(ops, c, checks)
         IN  IF r.fault /= NoFault THEN r ELSE optimize_from(r.ops, c + 1, checks)
    ELSE Rewritten(ops)

optimize_opcodes(ops, checks) == optimize_from(ops, 0, checks)

-----------------------------------------------------------------------------
(* parse *)

\* the operations the depth-0 match turns into an instruction (Some(..))
Translated == {"Move", "Add", "Sub", "Write", "Read", "ResetCell", "ScanCells", "TapeState"}

ParseState == [program |-> <<>>, loop_stack |-> 0, loop_start |-> 0, fault |-> NoFault]

Push(st, instruction) == [st EXCEPT !.program = Append(@, instruction)]

\* LoopBegin met outside a loop
OpenLoop(st, c) == [st EXCEPT !.loop_start = c, !.loop_stack = @ + 1]

\* a nested LoopBegin that takes over loop_start
NestLoopRestart(st, c) == [st EXCEPT !.loop_start = c, !.loop_stack = @ + 1]

\* LoopBegin met inside a loop
NestLoop(st, c) == [st EXCEPT !.loop_stack = @ + 1]

\* a stray LoopEnd reported by its 1-based position
StrayClosingOneBased(st, c) == [st EXCEPT !.fault = Panic("parse", "STRAY CLOSING BRACKET", c + 1)]

\* LoopEnd met outside a loop
StrayClosing(st, c) == [st EXCEPT !.fault = Panic("parse", "STRAY CLOSING BRACKET", c)]

\* the check after the scan
StrayOpening(st) ==
    IF st.loop_stack /= 0
    THEN [program |-> st.program, fault |-> Panic("parse", "STRAY OPENING BRACKET", st.loop_start)]
    ELSE [program |-> st.program, fault |-> NoFault]

\* a slice that takes the closing loop-end along
InteriorWithEnd(ops, loop_start, c) == SubSeq(ops, loop_start + 2, c + 1)

\* opcodes[loop_start+1..i]
Interior(ops, loop_start, c) == SubSeq(ops, loop_start + 2, c)

RECURSIVE parse(_), ParseScan(_, _, _, _), ParseOp(_, _, _)

\* the body of the for loop for element c
ParseOp(ops, c, st) ==
    LET op == At(ops, c)
    IN  IF st.loop_stack = 0
        THEN CASE op.op = "LoopBegin" -> OpenLoop(st, c)
               [] op.op = "LoopEnd" -> StrayClosing(st, c)
               [] op.op \in Translated -> Push(st, Instr(op.op, op.arg))
               [] OTHER -> st
        ELSE CASE op.op = "LoopBegin" -> NestLoop(st, c)
               [] op.op = "LoopEnd" ->
                      LET closed == [st EXCEPT !.loop_stack = @ - 1]
                      IN  IF closed.loop_stack = 0
                          THEN LET inner == parse(Interior(ops, st.loop_start, c))
                               IN  IF inner.fault /= NoFault
                                   THEN [closed EXCEPT !.fault = inner.fault]
                                   ELSE Push(closed, Loop(inner.program))
                          ELSE closed
               [] OTHER -> st

\* the turns of the for loop for elements lo .. hi-1, in order (evaluated by halving the
\* range); a panic ends the loop
ParseScan(ops, lo, hi, st) ==
    IF st.fault /= NoFault \/ lo >= hi THEN st
    ELSE IF hi - lo = 1 THEN ParseOp(ops, lo, st)
    ELSE LET mid == (lo + hi) \div 2
         IN  ParseScan(ops, mid, hi, ParseScan(ops, lo, mid, st))

\* the for loop, then the check after it
parse(ops) ==
    LET st == ParseScan(ops, 0, Len(ops), ParseState)
    IN  IF st.fault /= NoFault THEN [program |-> st.program, fault |-> st.fault]
        ELSE StrayOpening(st)

-----------------------------------------------------------------------------
(* execute *)

Cell(t, p) == IF p \in DOMAIN t THEN t[p] ELSE 0

SetCell(t, p, v) ==
    IF v = 0
    THEN [k \in DOMAIN t \ {p} |-> t[k]]
    ELSE [k \in DOMAIN t \cup {p} |-> IF k = p THEN v ELSE t[k]]

\* 2^bits mod m
RECURSIVE Pow2Mod(_, _)
Pow2Mod(bits, m) == IF bits = 0 THEN 1 % m ELSE (2 * Pow2Mod(bits - 1, m)) % m

\* usize::wrapping_sub(a, b) % m, for 0 <= a, b < 2^31
WrappingSubMod(a, b, m) ==
    IF a >= b THEN (a - b) % m ELSE (Pow2Mod(UsizeBits, m) + ((a - b) % m)) % m

\* usize::wrapping_add(a, b) % m, for 0 <= a, b < 2^31: the sum does not reach 2^UsizeBits
WrappingAddMod(a, b, m) == (a + b) % m

\* a Move without the reduction to the length of the tape
MovePointerUnreduced(p, offset) == p + offset

MovePointer(p, offset) ==
    IF offset < 0
    THEN WrappingSubMod(p, 0 - offset, TapeLen)
    ELSE WrappingAddMod(p, offset, TapeLen)

\* an Add that lands on the cell after the one under the data pointer
AddCellAhead(t, p, count) ==
    SetCell(t, (p + 1) % TapeLen, (Cell(t, (p + 1) % TapeLen) + count) % U8Modulus)

AddCell(t, p, count) == SetCell(t, p, (Cell(t, p) + count) % U8Modulus)

SubCell(t, p, count) == SetCell(t, p, (Cell(t, p) + U8Modulus - count) % U8Modulus)

\* a ResetCell that runs the body of the loop once
ResetCellOnce(t, p) == SubCell(t, p, 1)

ResetCell(t, p) == SetCell(t, p, 0)

\* while tape[*data_pointer] != 0 { *data_pointer += 1 }
RECURSIVE ScanForward(_, _)
ScanForward(t, p) ==
    IF p >= TapeLen THEN [data_pointer |-> p, fault |-> Panic("execute", "index out of bounds", p)]
    ELSE IF Cell(t, p) = 0 THEN [data_pointer |-> p, fault |-> NoFault]
    ELSE ScanForward(t, p + 1)

\* while tape[*data_pointer] != 0 { *data_pointer -= 1 }
RECURSIVE ScanBackward(_, _, _)
ScanBackward(t, p, checks) ==
    IF Cell(t, p) = 0 THEN [data_pointer |-> p, fault |-> NoFault]
    ELSE IF p = 0
    THEN [data_pointer |-> p,
          fault |-> IF checks THEN Panic("execute", "attempt to subtract with overflow", p)
                    ELSE Panic("execute", "index out of bounds", p - 1)]
    ELSE ScanBackward(t, p - 1, checks)

\* a scan that, at either end of the tape, goes on from the other end
ScanCellsWrapping(t, p, direction, checks) ==
    LET r == IF direction = 1 THEN ScanForward(t, p) ELSE ScanBackward(t, p, checks)
    IN  IF r.fault = NoFault
        THEN r
        ELSE [data_pointer |-> IF direction = 1 THEN 0 ELSE TapeLen - 1, fault |-> NoFault]

ScanCells(t, p, direction, checks) ==
    IF direction = 1 THEN ScanForward(t, p) ELSE ScanBackward(t, p, checks)

\* print!("{}", tape[*data_pointer] as char)
WriteCell(out, t, p) == Append(out, [kind |-> "char", val |-> Cell(t, p)])

\* the number of indices the tape-state dump prints
LastNonZeroIndex(t) ==
    IF DOMAIN t = {} THEN 0
    ELSE (CHOOSE k \in DOMAIN t : \A l \in DOMAIN t : l <= k) + 1

DumpTape(out, t) == Append(out, [kind |-> "indices", val |-> LastNonZeroIndex(t)])

\* the state of a run of execute
Machine(t, p, st, in, out, checks) ==
    [tape |-> t, data_pointer |-> p, stack |-> st, input |-> in, output |-> out,
     overflow_checks |-> checks, pc |-> "execute", fault |-> NoFault]

Frame(instructions) == [instrs |-> instructions, ix |-> 1]

Top(m) == m.stack[Len(m.stack)]

\* the instruction the innermost call is at, "Return" when its for loop is over
CurrentOp(m) ==
    IF m.stack = <<>> THEN "None"
    ELSE IF Top(m).ix > Len(Top(m).instrs) THEN "Return"
    ELSE Top(m).instrs[Top(m).ix].op

Advance(m) == [m EXCEPT !.stack[Len(m.stack)].ix = @ + 1]

Abort(m, f) == [m EXCEPT !.pc = "fault", !.fault = f]

\* the innermost call returns; the caller is still at its Loop instruction and tests again
Return(m) ==
    [m EXCEPT !.stack = SubSeq(@, 1, Len(@) - 1),
              !.pc = IF Len(m.stack) = 1 THEN "halted" ELSE "execute"]

\* a loop that runs its body before it tests the cell
EnterLoopUntested(m, body) == [m EXCEPT !.stack = Append(@, Frame(body))]

\* while tape[*data_pointer] != 0 { execute(&nested_instructions, ..) }
EnterLoop(m, body) ==
    IF Cell(m.tape, m.data_pointer) /= 0
    THEN [m EXCEPT !.stack = Append(@, Frame(body))]
    ELSE Advance(m)

\* a Read that stores 0 at the end of the input and carries on
ReadCellZeroAtEnd(m) ==
    IF m.input = <<>>
    THEN Advance([m EXCEPT !.tape = SetCell(@, m.data_pointer, 0)])
    ELSE Advance([m EXCEPT !.tape = SetCell(@, m.data_pointer, Head(m.input)),
                           !.input = Tail(@)])

ReadCell(m) ==
    IF m.input = <<>>
    THEN Abort(m, Panic("execute", "FAILED TO READ 'stdin'!", 0))
    ELSE Advance([m EXCEPT !.tape = SetCell(@, m.data_pointer, Head(m.input)),
                           !.input = Tail(@)])

ScanStep(m, direction) ==
    LET r == ScanCells(m.tape, m.data_pointer, direction, m.overflow_checks)
    IN  IF r.fault /= NoFault THEN Abort(m, r.fault)
        ELSE Advance([m EXCEPT !.data_pointer = r.data_pointer])

\* one step of execute: one instruction of the innermost call, or its return
ExecuteStep(m) ==
    LET kind == CurrentOp(m)
        instr == Top(m).instrs[Top(m).ix]
    IN  CASE kind = "Return" -> Return(m)
          [] kind = "Loop" -> EnterLoop(m, instr.body)
          [] kind = "Move" -> Advance([m EXCEPT !.data_pointer = MovePointer(@, instr.arg)])
          [] kind = "Add" -> Advance([m EXCEPT !.tape = AddCell(@, m.data_pointer, instr.arg)])
          [] kind = "Sub" -> Advance([m EXCEPT !.tape = SubCell(@, m.data_pointer, instr.arg)])
          [] kind = "ResetCell" -> Advance([m EXCEPT !.tape = ResetCell(@, m.data_pointer)])
          [] kind = "ScanCells" -> ScanStep(m, instr.arg)
          [] kind = "Write" -> Advance([m EXCEPT !.output = WriteCell(@, m.tape, m.data_pointer)])
          [] kind = "Read" -> ReadCell(m)
          [] kind = "TapeState" -> Advance([m EXCEPT !.output = DumpTape(@, m.tape)])
          [] OTHER -> m

\* execute run for at most fuel steps (evaluated by halving the fuel)
RECURSIVE RunFor(_, _)
RunFor(m, fuel) ==
    IF m.pc /= "execute" \/ fuel = 0 THEN m
    ELSE IF fuel = 1 THEN ExecuteStep(m)
    ELSE RunFor(RunFor(m, fuel \div 2), fuel - (fuel \div 2))

\* execute(instructions, tape, data_pointer) run to its end, or until the fuel is spent
execute(instructions, t, p, in, checks, fuel) ==
    RunFor(Machine(t, p, <<Frame(instructions)>>, in, <<>>, checks), fuel)

-----------------------------------------------------------------------------
(* The runs of main() that are explored *)

\* the characters of a source text: the nine symbols and one character tokenize drops
Alphabet == Symbols \cup {"x"}

ShortSources == UNION {[1..n -> Alphabet] : n \in 0..MaxLen}

Run(symbol, n) == [k \in 1..n |-> symbol]

\* sources that put a value in a cell next to a nonzero neighbour
Setups == {<<>>, <<"+", ">">>, <<">", "+", "<">>}

Idioms == {<<"[", "-", "]">>, <<"[", "+", "]">>}

\* a run of n increments or of n decrements
RunSources == {Run(symbol, n) : symbol \in {"+", "-"}, n \in 1..MaxRun}

\* a cell brought to each of its values, then an idiom
IdiomSources ==
    {s \o Run("+", n) \o t : s \in Setups, n \in 0..(U8Modulus - 1), t \in Idioms}

LongSources ==
    { <<",", "+", ".">>,
      <<"+", "[", ">", "]", ".", ".">>,
      <<"+", "[", ">", "]", ">", ">">>,
      <<"+", ">", "[", "<", "]", ".", ".">>,
      <<"+", ">", "+", "[", "<", "]", "<", ">", ".">>,
      <<"+", ">", "+", "<", "[", ">", "]", ".", ">">>,
      <<"+", ">", "+", ">", "+", "<", "<", "[", ">", "]", "+", ">">>,
      <<"+", ">", "+", ">", "+", "[", "<", "]", ".", ".">>,
      <<">", "+", ">", "+", "[", "<", "]", ".", ",">>,
      <<"+", "+", "[", ">", "+", "<", "-", "]", ">", ".">>,
      <<",", "[", ".", ",", "]">>,
      <<"[", "[", "]", "[">>,
      <<"[", "]", "[", "[", "]">>,
      <<"+", "[", "[", "-", "]", "]", "|">>,
      <<"+", "[", "-", "[", "+", "]", "]", "]">>,
      <<"[", "[", ".", "]", "]", "]">>,
      <<"+", "[", "[", ".", "-", "]", "]">>,
      <<">", ">", "<", "<", "+", ".">>,
      <<"x", "+", "x", ".", "x">> }

Sources == ShortSources \cup RunSources \cup IdiomSources \cup LongSources

Inputs == {<<>>, <<65>>, <<65, 0>>}

\* stdin is only ever touched by a Read: a source without one is run on the empty stdin
InputsOf(source) == IF \E k \in 1..Len(source) : source[k] = "," THEN Inputs ELSE {<<>>}

Init ==
    /\ src \in Sources
    /\ overflow_checks \in BOOLEAN
    /\ stdin \in InputsOf(src)
    /\ input = stdin
    /\ pc = "tokenize"
    /\ opcodes = <<>>
    /\ i = 0
    /\ program = <<>>
    /\ tape = <<>>
    /\ data_pointer = 0
    /\ stack = <<>>
    /\ output = <<>>
    /\ fault = NoFault
    /\ steps = 0

\* let mut opcodes = tokenize(&source_code)
Tokenize ==
    /\ pc = "tokenize"
    /\ opcodes' = tokenize(src)
    /\ i' = 0
    /\ pc' = "optimize"
    /\ UNCHANGED <<src, overflow_checks, program, tape, data_pointer, stack, stdin, input,
                   output, fault, steps>>

\* one iteration of the cursor loop of optimize_opcodes
OptimizeStep ==
    /\ pc = "optimize"
    /\ i < Len(opcodes)
    /\ LET r == OptimizeIteration(opcodes, i, overflow_checks)
       IN  /\ opcodes' = r.ops
           /\ fault' = r.fault
           /\ pc' = IF r.fault /= NoFault THEN "fault" ELSE "optimize"
           /\ i' = IF r.fault /= NoFault THEN i ELSE i + 1
    /\ UNCHANGED <<src, overflow_checks, program, tape, data_pointer, stack, stdin, input,
                   output, steps>>

\* the cursor loop of optimize_opcodes ends
OptimizeReturn ==
    /\ pc = "optimize"
    /\ i >= Len(opcodes)
    /\ pc' = "parse"
    /\ UNCHANGED <<src, overflow_checks, opcodes, i, program, tape, data_pointer, stack,
                   stdin, input, output, fault, steps>>

\* a parse that hands what it built before the fault to execute
ParsePartial ==
    /\ pc = "parse"
    /\ LET r == parse(opcodes)
       IN  /\ fault' = r.fault
           /\ pc' = "execute"
           /\ program' = r.program
           /\ stack' = <<Frame(r.program)>>
    /\ UNCHANGED <<src, overflow_checks, opcodes, i, tape, data_pointer, stdin, input, output,
                   steps>>

\* let program = parse(opcodes), then the set-up of the call of execute
Parse ==
    /\ pc = "parse"
    /\ LET r == parse(opcodes)
       IN  /\ fault' = r.fault
           /\ pc' = IF r.fault /= NoFault THEN "fault" ELSE "execute"
           /\ program' = IF r.fault /= NoFault THEN <<>> ELSE r.program
           /\ stack' = IF r.fault /= NoFault THEN <<>> ELSE <<Frame(r.program)>>
    /\ UNCHANGED <<src, overflow_checks, opcodes, i, tape, data_pointer, stdin, input, output,
                   steps>>

Current == Machine(tape, data_pointer, stack, input, output, overflow_checks)

\* one step of execute: the instruction the innermost call is at, or its return
Step ==
    /\ pc = "execute"
    /\ steps < MaxSteps
    /\ LET m == ExecuteStep(Current)
       IN  /\ tape' = m.tape
           /\ data_pointer' = m.data_pointer
           /\ stack' = m.stack
           /\ input' = m.input
           /\ output' = m.output
           /\ fault' = m.fault
           /\ pc' = m.pc
    /\ steps' = steps + 1
    /\ UNCHANGED <<src, overflow_checks, opcodes, i, program, stdin>>

ExecMove == CurrentOp(Current) = "Move" /\ Step

ExecAdd == CurrentOp(Current) = "Add" /\ Step

ExecSub == CurrentOp(Current) = "Sub" /\ Step

ExecResetCell == CurrentOp(Current) = "ResetCell" /\ Step

ExecScanCells == CurrentOp(Current) = "ScanCells" /\ Step

ExecWrite == CurrentOp(Current) = "Write" /\ Step

ExecRead == CurrentOp(Current) = "Read" /\ Step

ExecLoop == CurrentOp(Current) = "Loop" /\ Step

ExecTapeState == CurrentOp(Current) = "TapeState" /\ Step

\* the for loop of the innermost call is over
ExecReturn == CurrentOp(Current) = "Return" /\ Step

Next ==
    \/ Tokenize
    \/ OptimizeStep
    \/ OptimizeReturn
    \/ Parse
    \/ ExecMove
    \/ ExecAdd
    \/ ExecSub
    \/ ExecResetCell
    \/ ExecScanCells
    \/ ExecWrite
    \/ ExecRead
    \/ ExecLoop
    \/ ExecTapeState
    \/ ExecReturn

Spec == Init /\ [][Next]_vars

-----------------------------------------------------------------------------
(* The calls of execute that are explored on their own: a program the parser *)
(* can return, on a tape and a data pointer that a run of main() can have    *)
(* reached by the time of the call (the far end of the tape takes a source   *)
(* of some 30000 characters to reach).                                       *)

\* cells 0 and 1, and the last two cells of the tape
EdgePointers == {0, 1, TapeLen - 2, TapeLen - 1}

EdgeTapes ==
    { <<>>,
      [k \in {0} |-> 1],
      [k \in {0, 1} |-> IF k = 0 THEN 1 ELSE 255],
      [k \in {TapeLen - 1} |-> 1],
      [k \in {TapeLen - 2, TapeLen - 1} |-> IF k = TapeLen - 1 THEN 1 ELSE 2],
      [k \in {0, TapeLen - 1} |-> 1] }

EdgePrograms ==
    { <<Instr("ScanCells", 1), Instr("Write", 0)>>,
      <<Instr("ScanCells", 0), Instr("Write", 0)>>,
      <<Instr("Move", 1), Instr("ScanCells", 1), Instr("Add", 1)>>,
      <<Instr("Move", -1), Instr("ScanCells", 0), Instr("Sub", 1)>>,
      <<Instr("Read", 0), Instr("Write", 0), Instr("Read", 0), Instr("Write", 0)>>,
      <<Loop(<<Instr("Sub", 1), Instr("Move", 1)>>), Instr("TapeState", 0), Instr("Write", 0)>>,
      <<Loop(<<Instr("Move", -1), Instr("Read", 0)>>), Instr("ScanCells", 1)>>,
      <<Loop(<<Loop(<<Instr("Sub", 1)>>), Instr("Move", 1)>>), Instr("Write", 0)>>,
      <<Instr("ResetCell", 0), Loop(<<Instr("Write", 0)>>), Instr("Move", 2),
        Instr("Add", 255), Instr("TapeState", 0)>> }

HasRead(instructions) ==
    \E k \in 1..Len(instructions) :
        \/ instructions[k].op = "Read"
        \/ \E l \in 1..Len(instructions[k].body) : instructions[k].body[l].op = "Read"

\* execute(&program, &mut tape, &mut data_pointer) is entered
InitExecute ==
    /\ src = <<>>
    /\ overflow_checks \in BOOLEAN
    /\ program \in EdgePrograms
    /\ stdin \in (IF HasRead(program) THEN Inputs ELSE {<<>>})
    /\ input = stdin
    /\ pc = "execute"
    /\ opcodes = <<>>
    /\ i = 0
    /\ tape \in EdgeTapes
    /\ data_pointer \in EdgePointers
    /\ stack = <<Frame(program)>>
    /\ output = <<>>
    /\ fault = NoFault
    /\ steps = 0

NextExecute ==
    \/ ExecMove
    \/ ExecAdd
    \/ ExecSub
    \/ ExecResetCell
    \/ ExecScanCells
    \/ ExecWrite
    \/ ExecRead
    \/ ExecLoop
    \/ ExecTapeState
    \/ ExecReturn

SpecExecute == InitExecute /\ [][NextExecute]_vars

-----------------------------------------------------------------------------
(* Vocabulary of the properties *)

\* the instruction the next step of execute runs
CurrentInstr == Top(Current).instrs[Top(Current).ix]

\* the instruction the last step of execute ran, when it ran one
LastOp ==
    IF stack /= <<>> /\ Top(Current).ix > 1
    THEN Top(Current).instrs[Top(Current).ix - 1].op
    ELSE "None"

\* parse has been called on opcodes
Parsed == pc \in {"execute", "halted", "fault"} /\ fault.in /= "optimize_opcodes"

\* every cell but cell p holds the same value in t and u
SameBut(t, u, p) == \A k \in (DOMAIN t \cup DOMAIN u) \ {p} : Cell(t, k) = Cell(u, k)

IsPointerStep(op) == op.op \in {"IncrementPointer", "DecrementPointer"}

\* nesting of the first n elements: loop-begins minus loop-ends
Depth(ops, n) ==
    Cardinality({k \in 1..n : ops[k].op = "LoopBegin"})
        - Cardinality({k \in 1..n : ops[k].op = "LoopEnd"})

\* the positions of the loop-ends met at nesting 0
StrayClosings(ops) ==
    {c \in 0..(Len(ops) - 1) : At(ops, c).op = "LoopEnd" /\ Depth(ops, c) = 0
                                   /\ \A n \in 0..c : Depth(ops, n) >= 0}

\* the positions of the loop-begins that no later loop-end closes
UnmatchedOpenings(ops) ==
    {c \in 0..(Len(ops) - 1) : At(ops, c).op = "LoopBegin"
                                   /\ \A n \in (c + 1)..Len(ops) : Depth(ops, n) > Depth(ops, c)}

Least(S) == CHOOSE c \in S : \A d \in S : c <= d

Balanced(ops) ==
    /\ \A n \in 0..Len(ops) : Depth(ops, n) >= 0
    /\ Depth(ops, Len(ops)) = 0

-----------------------------------------------------------------------------
(* C1: Move(o) at data pointer p leaves the data pointer at (p + o) mod      *)
(* 30000, for offsets of either sign; Move(-1) at 0 gives 29999.             *)
C1_MoveIsModular ==
    [][ExecMove =>
         /\ data_pointer' = (data_pointer + CurrentInstr.arg) % TapeLen
         /\ data_pointer' \in 0..(TapeLen - 1)]_vars

(* C2: for a bracket-balanced source, the pipeline without the optimizer     *)
(* (tokenize, parse, execute) shows the same behaviour as the pipeline with  *)
(* it: same output, same input consumed, same final tape and data pointer,   *)
(* and it halts or faults alike.  (Stated of the runs whose optimizer         *)
(* returns; C7 is about the others.)                                         *)
Unoptimized == parse(tokenize(src))

UnoptimizedRun == execute(Unoptimized.program, <<>>, 0, stdin, overflow_checks, LoopFuel)

C2_OptimizerPreservesBehaviour ==
    (pc \in {"halted", "fault"} /\ Parsed /\ Balanced(tokenize(src))
         /\ UnoptimizedRun.pc /= "execute") =>
        /\ UnoptimizedRun.pc = pc
        /\ UnoptimizedRun.output = output
        /\ UnoptimizedRun.input = input
        /\ pc = "halted" => UnoptimizedRun.tape = tape
        /\ pc = "halted" => UnoptimizedRun.data_pointer = data_pointer

(* C3: whatever follows it, `[>]` is rewritten to ScanCells(forward) and     *)
(* `[<]` to ScanCells(backward); executing ScanCells moves the data pointer  *)
(* to the nearest cell holding zero in that direction, staying put on a zero *)
(* cell, and alters no cell.                                                 *)
ScanRewritten(ops, c) ==
    SubSeq(ops, 1, c)
        \o <<OpArg("ScanCells", BoolArg(At(ops, c + 1) = Op("IncrementPointer")))>>
        \o SubSeq(ops, c + 4, Len(ops))

ZerosAhead(t, p, direction) ==
    IF direction = 1
    THEN {q \in p..(TapeLen - 1) : Cell(t, q) = 0}
    ELSE {q \in 0..p : Cell(t, q) = 0}

Nearest(S, p) == CHOOSE q \in S : \A r \in S : (IF q >= p THEN q - p ELSE p - q)
                                                  <= (IF r >= p THEN r - p ELSE p - r)

C3_ScanIdiom ==
    [][/\ (OptimizeStep /\ IsScanIdiom(opcodes, i)) =>
              (pc' = "optimize" /\ opcodes' = ScanRewritten(opcodes, i))
       /\ (ExecScanCells /\ ZerosAhead(tape, data_pointer, CurrentInstr.arg) /= {}) =>
              /\ pc' = "execute"
              /\ tape' = tape
              /\ data_pointer' = Nearest(ZerosAhead(tape, data_pointer, CurrentInstr.arg),
                                         data_pointer)]_vars

(* C4: `[-]` and `[+]` are rewritten to ResetCell, and ResetCell leaves the   *)
(* current cell at 0 whatever its value, the data pointer and every other    *)
(* cell unchanged: the final state of executing the loop that was rewritten, *)
(* Loop(Sub(1)) or Loop(Add(1)).                                             *)
ResetRewritten(ops, c) ==
    SubSeq(ops, 1, c) \o <<Op("ResetCell")>> \o SubSeq(ops, c + 4, Len(ops))

\* a loop whose body is one increment or decrement has escaped the rewrite
ResetLoopLeft(ops) ==
    \E c \in 0..(Len(ops) - 3) :
        /\ At(ops, c).op = "LoopBegin"
        /\ At(ops, c + 1).op \in {"Increment", "Decrement", "Add", "Sub"}
        /\ At(ops, c + 1).arg \in {0, 1}
        /\ At(ops, c + 2).op = "LoopEnd"

LoopRun(body) == execute(<<Loop(body)>>, tape, data_pointer, input, overflow_checks, LoopFuel)

C4_ResetIdiom ==
    [][/\ (OptimizeStep /\ IsResetIdiom(opcodes, i)) =>
              (pc' = "optimize" /\ opcodes' = ResetRewritten(opcodes, i))
       /\ OptimizeReturn => ~ResetLoopLeft(opcodes)
       /\ ExecResetCell =>
              /\ pc' = "execute"
              /\ Cell(tape', data_pointer) = 0
              /\ data_pointer' = data_pointer
              /\ SameBut(tape, tape', data_pointer)
              /\ \A body \in {<<Instr("Sub", 1)>>, <<Instr("Add", 1)>>} :
                     LET unrewritten == LoopRun(body)
                     IN  /\ unrewritten.pc = "halted"
                         /\ unrewritten.tape = tape'
                         /\ unrewritten.data_pointer = data_pointer']_vars

\* `+>`, 255 times `+`, `[-]`: ResetCell has zeroed cell 1 from 255 next to cell 0 holding 1
C4_Witness ==
    /\ pc = "execute"
    /\ LastOp = "ResetCell"
    /\ Len(src) = 2 + 255 + 3
    /\ data_pointer = 1
    /\ tape = [k \in {0} |-> 1]

(* C5: a run of n `+` on a zero cell leaves n mod 256 in it and a run of n   *)
(* `-` leaves (256 - n mod 256) mod 256, for every n >= 1, also n >= 256:    *)
(* the run count wraps modulo 256 and never faults.                          *)
C5_RunCountWraps ==
    src \in RunSources =>
        /\ pc /= "fault"
        /\ pc = "halted" =>
               Cell(tape, 0) = IF src[1] = "+"
                               THEN Len(src) % U8Modulus
                               ELSE (U8Modulus - (Len(src) % U8Modulus)) % U8Modulus

(* C6: a maximal run of pointer steps whose net offset is zero is removed    *)
(* whole by optimize_opcodes and no Move is inserted, so the optimized       *)
(* program leaves the data pointer where it was.                             *)
C6_ZeroRunRemoved ==
    [][(/\ OptimizeStep
        /\ IsPointerStep(At(opcodes, i))
        /\ (i = 0 \/ ~IsPointerStep(At(opcodes, i - 1)))
        /\ OffsetRun(opcodes, i, 0).offset = 0) =>
            opcodes' = SubSeq(opcodes, 1, i)
                           \o SubSeq(opcodes, OffsetRun(opcodes, i, 0).j + 1, Len(opcodes))]_vars

(* C7: optimize_opcodes has no failure mode: on every tokenizer output it    *)
(* returns a sequence and never aborts.  (Stated of the aborts every build   *)
(* has; the overflow of the run count is C5.)                                *)
C7_OptimizerNeverFaults ==
    ~(fault.in = "optimize_opcodes" /\ fault.kind /= "attempt to add with overflow")

(* C8: optimize_opcodes is idempotent: applied to its own output (and to the *)
(* empty sequence) it leaves the sequence unchanged.                         *)
C8_OptimizerIdempotent ==
    pc = "parse" => optimize_opcodes(opcodes, overflow_checks) = Rewritten(opcodes)

(* C9: if the scan of parse meets a loop-end while nesting is 0, parse       *)
(* aborts with the unmatched-closing-bracket fault at the index of the       *)
(* first such loop-end; source `]` alone faults at position 0.               *)
C9_StrayClosingPosition ==
    /\ (Parsed /\ StrayClosings(opcodes) /= {}) =>
           fault = Panic("parse", "STRAY CLOSING BRACKET", Least(StrayClosings(opcodes)))
    /\ (Parsed /\ src = <<"]">>) => fault = Panic("parse", "STRAY CLOSING BRACKET", 0)

\* `+[-[+]]]`: the stray loop-end is element 4 of Add(1), LoopBegin, Sub(1), ResetCell, LoopEnd, LoopEnd
C9_Witness ==
    /\ pc = "fault"
    /\ Len(opcodes) = 6
    /\ opcodes[6] = Op("LoopEnd")
    /\ fault = Panic("parse", "STRAY CLOSING BRACKET", 5)

(* C10: with no unmatched loop-end and nesting nonzero at the end of the     *)
(* scan, parse aborts with the unmatched-opening-bracket fault at the index  *)
(* of the outermost unmatched loop-begin; source `[` alone faults at         *)
(* position 0; on balanced brackets parse raises no fault.                   *)
C10_StrayOpeningPosition ==
    /\ (Parsed /\ StrayClosings(opcodes) = {} /\ Depth(opcodes, Len(opcodes)) /= 0) =>
           fault = Panic("parse", "STRAY OPENING BRACKET", Least(UnmatchedOpenings(opcodes)))
    /\ (Parsed /\ src = <<"[">>) => fault = Panic("parse", "STRAY OPENING BRACKET", 0)
    /\ (Parsed /\ Balanced(opcodes)) => fault.in /= "parse"

\* `[][[]`: the loop-begin at 2 is the outermost unmatched one, the one at 3 is closed
C10_Witness ==
    /\ pc = "fault"
    /\ Len(opcodes) = 5
    /\ UnmatchedOpenings(opcodes) = {2}
    /\ fault = Panic("parse", "STRAY OPENING BRACKET", 2)

(* C11: a ScanCells with no zero cell between the data pointer and the end   *)
(* of the tape it scans towards ends the run with a fault raised by execute; *)
(* the data pointer does not come out at the other end of the tape, the      *)
(* access that faults is outside cells 0..29999, no cell is altered and      *)
(* nothing is written.                                                       *)
C11_ScanOffTapeFaults ==
    [][(ExecScanCells /\ ZerosAhead(tape, data_pointer, CurrentInstr.arg) = {}) =>
         /\ pc' = "fault"
         /\ fault'.in = "execute"
         /\ fault'.kind \in {"index out of bounds", "attempt to subtract with overflow"}
         /\ fault'.kind = "index out of bounds" => fault'.pos \notin 0..(TapeLen - 1)
         /\ data_pointer' = data_pointer
         /\ tape' = tape
         /\ output' = output
         /\ input' = input]_vars

\* a forward scan from cell 29998 ran off the end of the tape
C11_Witness ==
    /\ pc = "fault"
    /\ fault = Panic("execute", "index out of bounds", TapeLen)
    /\ data_pointer = TapeLen - 2
    /\ Cell(tape, TapeLen - 2) /= 0
    /\ Cell(tape, TapeLen - 1) /= 0

(* C12: when parse raises a bracket fault the run is over with nothing       *)
(* executed: no output, no input byte consumed, tape and data pointer as     *)
(* they were; and a step of execute is only ever taken after parse has       *)
(* returned the whole program without a fault.                               *)
C12_NoPartialRun ==
    /\ fault.in = "parse" =>
         /\ pc = "fault"
         /\ steps = 0
         /\ output = <<>>
         /\ input = stdin
         /\ tape = <<>>
         /\ data_pointer = 0
         /\ stack = <<>>
    /\ steps > 0 => parse(opcodes) = [program |-> program, fault |-> NoFault]

\* parse has faulted on a bracket that follows operations it had translated
C12_Witness ==
    /\ pc = "fault"
    /\ fault.in = "parse"
    /\ fault.pos > 0
    /\ \E k \in 1..fault.pos : opcodes[k].op \in {"Write", "Read", "Add"}

(* C13: a Read takes the first unread byte of stdin, so that the bytes are   *)
(* consumed one at a time and in order, and stores it in the cell under the  *)
(* data pointer; data pointer, other cells and output stay as they are.  A   *)
(* Read at the end of the input is a fault of execute, and no step follows   *)
(* a fault.                                                                  *)
C13_ReadConsumesOneByte ==
    [][/\ pc /= "fault"
       /\ \E n \in 0..Len(stdin) : input' = SubSeq(stdin, n + 1, Len(stdin))
       /\ ExecRead =>
            /\ data_pointer' = data_pointer
            /\ output' = output
            /\ SameBut(tape, tape', data_pointer)
            /\ IF input = <<>>
               THEN /\ pc' = "fault"
                    /\ fault' = Panic("execute", "FAILED TO READ 'stdin'!", 0)
                    /\ tape' = tape
               ELSE /\ pc' = "execute"
                    /\ input' = Tail(input)
                    /\ Len(input') = Len(input) - 1
                    /\ Cell(tape', data_pointer) = Head(input)]_vars

\* Read, Write, Read, Write on a stdin of one byte: the second Read faulted
C13_Witness ==
    /\ pc = "fault"
    /\ fault.kind = "FAILED TO READ 'stdin'!"
    /\ stdin = <<65>>
    /\ input = <<>>
    /\ Cell(tape, data_pointer) = 65
    /\ output = <<[kind |-> "char", val |-> 65]>>

(* C14: tokenize returns one operation per character of the source that is  *)
(* one of the nine symbols, in the order of the source, each the primitive   *)
(* operation of its symbol; the other characters leave no trace, and no      *)
(* source makes tokenize fail.                                               *)
Primitive ==
    [symbol \in Symbols |->
        CASE symbol = ">" -> "IncrementPointer"
          [] symbol = "<" -> "DecrementPointer"
          [] symbol = "+" -> "Increment"
          [] symbol = "-" -> "Decrement"
          [] symbol = "." -> "Write"
          [] symbol = "," -> "Read"
          [] symbol = "[" -> "LoopBegin"
          [] symbol = "]" -> "LoopEnd"
          [] symbol = "|" -> "TapeState"]

\* the positions of the source that hold one of the nine symbols
Recognized(source) == {k \in 1..Len(source) : source[k] \in Symbols}

\* how many of the positions kept are among the first k
Rank(kept, k) == Cardinality({l \in kept : l <= k})

C14_TokenizeKeepsSymbols ==
    [][Tokenize =>
         /\ pc' = "optimize"
         /\ fault' = NoFault
         /\ LET kept == Recognized(src)
            IN  /\ Len(opcodes') = Cardinality(kept)
                /\ \A k \in kept :
                       opcodes'[Rank(kept, k)] = [op |-> Primitive[src[k]], arg |-> 0]]_vars

\* a source with a dropped character between two symbols has been tokenized
C14_Witness ==
    /\ pc = "optimize"
    /\ i = 0
    /\ src = <<"x", "+", "x", ".", "x">>
    /\ opcodes = <<Op("Increment"), Op("Write")>>

(* C15: for a bracket-balanced sequence that optimize_opcodes has returned,  *)
(* parse returns without a fault a tree whose flattening is that sequence:   *)
(* Loop(body) flattens to loop-begin, the flattening of body, loop-end, and  *)
(* any other instruction to the operation of its name and argument.          *)
RECURSIVE Flatten(_)
Flatten(instructions) ==
    IF instructions = <<>>
    THEN <<>>
    ELSE LET instr == Head(instructions)
         IN  (IF instr.op = "Loop"
              THEN <<Op("LoopBegin")>> \o Flatten(instr.body) \o <<Op("LoopEnd")>>
              ELSE <<OpArg(instr.op, instr.arg)>>)
                 \o Flatten(Tail(instructions))

C15_ParseFlattens ==
    (pc = "parse" /\ Balanced(opcodes)) =>
        /\ parse(opcodes).fault = NoFault
        /\ Flatten(parse(opcodes).program) = opcodes

(* C16: the cursor loop of optimize_opcodes comes to an end: an iteration    *)
(* never makes the sequence longer, and an iteration that completes leaves   *)
(* strictly fewer elements between the cursor and the end of the sequence    *)
(* (never fewer than none); an iteration that does not complete is a fault.  *)
C16_OptimizerTerminates ==
    [][OptimizeStep =>
         /\ Len(opcodes') <= Len(opcodes)
         /\ pc' \in {"optimize", "fault"}
         /\ pc' = "optimize" =>
              /\ i' <= Len(opcodes')
              /\ Len(opcodes') - i' < Len(opcodes) - i]_vars

\* the loop has ended on a run of 257 that one iteration rewrote to one element
C16_Witness ==
    /\ pc = "parse"
    /\ Len(src) = 257
    /\ Len(opcodes) = 1
    /\ i = 1

(* C17: Loop(body) reached on a zero cell runs no instruction of body and is *)
(* left behind; reached on a nonzero cell it starts body; when body has run  *)
(* to its end the Loop is tested again on the cell the data pointer is then  *)
(* at.  The test itself alters nothing.  So the cell under the data pointer  *)
(* is 0 whenever a Loop has just been left behind, and nonzero whenever a    *)
(* body is started.                                                          *)
C17_LoopTestsBeforeEachIteration ==
    [][/\ ExecLoop =>
            /\ pc' = "execute"
            /\ UNCHANGED <<tape, data_pointer, input, output>>
            /\ IF Cell(tape, data_pointer) = 0
               THEN stack' = [stack EXCEPT ![Len(stack)].ix = @ + 1]
               ELSE stack' = Append(stack, [instrs |-> CurrentInstr.body, ix |-> 1])
       /\ (ExecReturn /\ Len(stack) > 1) =>
            /\ pc' = "execute"
            /\ UNCHANGED <<tape, data_pointer, input, output>>
            /\ stack' = SubSeq(stack, 1, Len(stack) - 1)
            /\ stack'[Len(stack')].instrs[stack'[Len(stack')].ix].body = Top(Current).instrs
       /\ Len(stack') > Len(stack) => (ExecLoop /\ Cell(tape', data_pointer') /= 0)
       /\ (pc' = "execute" /\ LastOp' = "Loop") => Cell(tape', data_pointer') = 0]_vars

\* Loop(Sub(1), Move(1)) on cells 1, 255: run twice, the second time because
\* of the cell the data pointer had moved to, and left on the zero cell 2
C17_Witness ==
    /\ pc = "execute"
    /\ LastOp = "Loop"
    /\ data_pointer = 2
    /\ tape = [k \in {1} |-> 254]
    /\ steps = 9

(* C18: a step of execute that changes the data pointer is a Move or a       *)
(* ScanCells; a step that changes a cell is an Add, Sub, ResetCell or Read,  *)
(* and the cell is the one under the data pointer; a step that changes the   *)
(* output is a Write or a tape-state dump, and it appends one item to it.    *)
SameTape(t, u) == \A k \in DOMAIN t \cup DOMAIN u : Cell(t, k) = Cell(u, k)

C18_FrameConditions ==
    [][/\ data_pointer' /= data_pointer => (ExecMove \/ ExecScanCells)
       /\ ~SameTape(tape, tape') =>
            /\ ExecAdd \/ ExecSub \/ ExecResetCell \/ ExecRead
            /\ SameBut(tape, tape', data_pointer)
       /\ output' /= output =>
            /\ ExecWrite \/ ExecTapeState
            /\ Len(output') = Len(output) + 1
            /\ SubSeq(output', 1, Len(output)) = output
       /\ (ExecAdd \/ ExecSub \/ ExecResetCell \/ ExecRead \/ ExecWrite \/ ExecTapeState
             \/ ExecLoop \/ ExecReturn) => data_pointer' = data_pointer
       /\ (ExecMove \/ ExecScanCells \/ ExecWrite \/ ExecTapeState \/ ExecLoop
             \/ ExecReturn) => SameTape(tape, tape')
       /\ ~(ExecWrite \/ ExecTapeState) => output' = output]_vars

\* ResetCell, Loop, Move(2), Add(255) and the dump have run from cell 0 holding 1
C18_Witness ==
    /\ pc = "halted"
    /\ data_pointer = 2
    /\ SameTape(tape, [k \in {2} |-> 255])
    /\ output = <<[kind |-> "indices", val |-> 3]>>

(* C19: in every state of a run that has not faulted, the tape is 30000      *)
(* cells (indices 0..29999) of values 0..255 and the data pointer is one of  *)
(* 0..29999 whenever an instruction is about to run; when execute is         *)
(* entered every cell is 0 and the data pointer is 0.  (The tape of the      *)
(* model lists the cells that may hold a nonzero value; the others are 0.)   *)
C19_TapeAndPointerInRange ==
    /\ pc /= "fault" =>
         /\ DOMAIN tape \subseteq 0..(TapeLen - 1)
         /\ \A k \in DOMAIN tape : tape[k] \in 0..(U8Modulus - 1)
         /\ data_pointer \in 0..(TapeLen - 1)
    /\ steps = 0 =>
         /\ \A k \in DOMAIN tape : tape[k] = 0
         /\ data_pointer = 0

\* a run has ended with the data pointer moved and the cell under it at 255
C19_Witness ==
    /\ pc = "halted"
    /\ data_pointer > 0
    /\ Cell(tape, data_pointer) = U8Modulus - 1

(* C20: every sub-sequence that parse calls itself on, at any depth of the   *)
(* recursion, is bracket-balanced and parses without a fault; so a bracket   *)
(* fault of parse comes from the top-level call, and its position is the     *)
(* position of a bracket of the faulted kind at nesting 0 of the sequence    *)
(* that parse was given.                                                     *)

\* the loop-begin at nesting 0 and the loop-end that brings nesting back to 0
LoopSpans(ops) ==
    {s \in (0..(Len(ops) - 1)) \X (0..(Len(ops) - 1)) :
        /\ s[1] < s[2]
        /\ At(ops, s[1]).op = "LoopBegin"
        /\ \A n \in 0..s[1] : Depth(ops, n) >= 0
        /\ Depth(ops, s[1]) = 0
        /\ Depth(ops, s[2] + 1) = 0
        /\ \A n \in (s[1] + 1)..s[2] : Depth(ops, n) > 0}

\* the arguments of the recursive calls of parse(ops), nested ones included
RECURSIVE InnerCalls(_)
InnerCalls(ops) ==
    LET direct == {Interior(ops, s[1], s[2]) : s \in LoopSpans(ops)}
    IN  direct \cup UNION {InnerCalls(interior) : interior \in direct}

C20_InnerParseNeverFaults ==
    pc = "parse" =>
        /\ \A interior \in InnerCalls(opcodes) :
               Balanced(interior) /\ parse(interior).fault = NoFault
        /\ LET r == parse(opcodes)
           IN  /\ r.fault.kind = "STRAY CLOSING BRACKET" =>
                    /\ r.fault.pos \in 0..(Len(opcodes) - 1)
                    /\ At(opcodes, r.fault.pos).op = "LoopEnd"
                    /\ Depth(opcodes, r.fault.pos) = 0
               /\ r.fault.kind = "STRAY OPENING BRACKET" =>
                    /\ r.fault.pos \in 0..(Len(opcodes) - 1)
                    /\ At(opcodes, r.fault.pos).op = "LoopBegin"
                    /\ Depth(opcodes, r.fault.pos) = 0

\* `[[.]]]`: parse has called itself on `[.]` and on `.`, then met the stray
\* loop-end at position 5
C20_Witness ==
    /\ pc = "fault"
    /\ opcodes = <<Op("LoopBegin"), Op("LoopBegin"), Op("Write"), Op("LoopEnd"),
                   Op("LoopEnd"), Op("LoopEnd")>>
    /\ InnerCalls(opcodes) = {<<Op("LoopBegin"), Op("Write"), Op("LoopEnd")>>, <<Op("Write")>>}
    /\ fault = Panic("parse", "STRAY CLOSING BRACKET", 5)

=============================================================================
